---- MODULE Spec2Model ----
(***************************************************************************)
(* The in-memory taxi dispatcher of src/taxi_app.py: class TaxiApp with    *)
(* its three dicts, its three id counters and its five methods.            *)
(*                                                                         *)
(* Coordinates are floats in the source; here they are integers of a small *)
(* grid.  Distances are kept in units of 1/10000 (four decimals), which    *)
(* orders them exactly as math.hypot does on the grid and makes the fare,  *)
(* rounded to two decimals, an integer number of hundredths.               *)
(***************************************************************************)
EXTENDS Integers, Sequences, FiniteSets, TLC

\* ---- bounds of the model ----
MaxRiders  == 1
MaxDrivers == 2
MaxRides   == 2
MaxCoord   == 1
MaxThreads == 2

Coord       == 0..MaxCoord
RiderNames  == {"ann"}
DriverNames == {"bob"}
Threads     == 1..MaxThreads

\* Python's None (a missing dict entry, the result of a bare return).
None == 0

VARIABLES
    riders,      \* self.riders : id -> Rider
    drivers,     \* self.drivers: id -> Driver, in insertion order
    rides,       \* self.rides  : id -> Ride
    _rider_id,   \* self._rider_id
    _driver_id,  \* self._driver_id
    _ride_id,    \* self._ride_id
    last,        \* the call that ran last: its arguments, return value, output
    pc,          \* per thread: the line of the method it is about to run
    loc          \* per thread: the locals of the method it is running

vars  == <<riders, drivers, rides, _rider_id, _driver_id, _ride_id, last, pc, loc>>
state == <<riders, drivers, rides, _rider_id, _driver_id, _ride_id>>

\* ---- the dataclasses ----
Rider(id, name) == [id |-> id, name |-> name]

\* line 53 with x and y exchanged
Driver_swapped_xy(id, name, x, y) ==
    [id |-> id, name |-> name, x |-> y, y |-> x, available |-> TRUE]

Driver(id, name, x, y) ==
    [id |-> id, name |-> name, x |-> x, y |-> y, available |-> TRUE]

\* line 32 with True for False
Ride_born_completed(id, rider, driver, start_x, start_y, dest_x, dest_y, fare) ==
    [id |-> id, rider |-> rider, driver |-> driver,
     start_x |-> start_x, start_y |-> start_y,
     dest_x |-> dest_x, dest_y |-> dest_y,
     fare |-> fare, completed |-> TRUE]

\* A Ride holds references to its Rider and Driver objects; an object is
\* named by its id, the key under which the dict holds it.
Ride(id, rider, driver, start_x, start_y, dest_x, dest_y, fare) ==
    [id |-> id, rider |-> rider, driver |-> driver,
     start_x |-> start_x, start_y |-> start_y,
     dest_x |-> dest_x, dest_y |-> dest_y,
     fare |-> fare, completed |-> FALSE]

\* ---- arithmetic ----
\* float('inf'): above every distance of the grid.
Inf == 2000000000

\* The largest integer whose square is at most n, by bisection on lo..hi.
RECURSIVE isqrt(_, _, _)
isqrt(n, lo, hi) ==
    IF lo >= hi THEN lo
    ELSE LET mid == (lo + hi + 1) \div 2
         IN  IF mid * mid <= n THEN isqrt(n, mid, hi) ELSE isqrt(n, lo, mid - 1)

\* The square root of d2 in units of 1/10000, rounded to nearest.
sqrt4(d2) ==
    LET n == d2 * 100000000
        s == isqrt(n, 0, 46340)
    IN  IF n > s * s + s THEN s + 1 ELSE s

\* sqrt4 over the squared distances of the grid, computed once.
SqrtTable == [d2 \in 0..(2 * MaxCoord * MaxCoord) |-> sqrt4(d2)]

\* math.hypot(dx, dy), in units of 1/10000.
hypot(dx, dy) == SqrtTable[dx * dx + dy * dy]

\* line 82 without the base fare
fare_of_no_base(distance) == distance

\* round(250 + distance * 100, 2), in hundredths.
fare_of(distance) == 25000 + distance

\* ---- dicts ----
\* dict[key] = value
Put(dict, key, value) ==
    [k \in (DOMAIN dict) \cup {key} |-> IF k = key THEN value ELSE dict[k]]

\* dict.get(key) is None
Missing(dict, key) == key \notin DOMAIN dict

\* the keys of the dict in insertion order: the ids, inserted ascending.
RECURSIVE KeysFrom(_, _)
KeysFrom(S, k) ==
    IF S = {} THEN <<>>
    ELSE IF k \in S THEN <<k>> \o KeysFrom(S \ {k}, k + 1)
    ELSE KeysFrom(S, k + 1)

Keys(dict) == KeysFrom(DOMAIN dict, 0)

\* ---- _find_closest_driver ----
\* line 66 with <= for <: the last of the tied drivers would win
Closer_or_equal(dist, closest_dist) == dist <= closest_dist

\* the test of line 66
Closer(dist, closest_dist) == dist < closest_dist

\* line 63 left out: unavailable drivers would be candidates
Skipped_never(driver) == FALSE

\* the test of line 63
Skipped(driver) == ~driver.available

\* line 68 left out: closest_dist would stay at infinity
fcd_body_stale(drv, x, y, d, acc) ==
    IF Skipped(drv[d]) THEN acc
    ELSE LET dist == hypot(drv[d].x - x, drv[d].y - y)
         IN  IF Closer(dist, acc[2]) THEN <<d, acc[2]>> ELSE acc

\* one pass of the loop body (lines 63-68) over the driver of key d;
\* acc is <<closest, closest_dist>>
fcd_body(drv, x, y, d, acc) ==
    IF Skipped(drv[d]) THEN acc
    ELSE LET dist == hypot(drv[d].x - x, drv[d].y - y)
         IN  IF Closer(dist, acc[2]) THEN <<d, dist>> ELSE acc

RECURSIVE fcd_loop(_, _, _, _, _)
fcd_loop(drv, x, y, ks, acc) ==
    IF ks = <<>> THEN acc
    ELSE fcd_loop(drv, x, y, Tail(ks), fcd_body(drv, x, y, Head(ks), acc))

\* the key of the driver returned, None when there is none
_find_closest_driver(drv, x, y) ==
    fcd_loop(drv, x, y, Keys(drv), <<None, Inf>>)[1]

\* ---- what a call leaves behind: its return value and the line it prints ----
Call(op, args, ret, out) == [op |-> op, args |-> args, ret |-> ret, out |-> out]

RiderNotFoundLine == "Rider not found"

\* line 78 printing the text of line 74
NoDriverLine_copied == RiderNotFoundLine

NoDriverLine == "No available drivers"

RideNotFoundLine == "Ride not found"

AlreadyCompletedLine == "Ride already completed"

RideStartedLine == "Ride started"

RideCompletedLine == "Ride completed"

\* the locals of a thread that is in no method
NoLocals == <<>>

\* ---- the methods, each run to completion ----
register_rider(name) ==
    /\ _rider_id <= MaxRiders
    /\ riders' = Put(riders, _rider_id, Rider(_rider_id, name))
    /\ _rider_id' = _rider_id + 1
    /\ last' = Call("register_rider", <<name>>, _rider_id, "Registered rider")
    /\ UNCHANGED <<drivers, rides, _driver_id, _ride_id, pc, loc>>

\* line 55 left out: the next driver would take the same id
register_driver_reuses_id(name, x, y) ==
    /\ _driver_id <= MaxDrivers
    /\ drivers' = Put(drivers, _driver_id, Driver(_driver_id, name, x, y))
    /\ last' = Call("register_driver", <<name, x, y>>, _driver_id, "Registered driver")
    /\ UNCHANGED <<riders, rides, _rider_id, _driver_id, _ride_id, pc, loc>>

register_driver(name, x, y) ==
    /\ _driver_id <= MaxDrivers
    /\ drivers' = Put(drivers, _driver_id, Driver(_driver_id, name, x, y))
    /\ _driver_id' = _driver_id + 1
    /\ last' = Call("register_driver", <<name, x, y>>, _driver_id, "Registered driver")
    /\ UNCHANGED <<riders, rides, _rider_id, _ride_id, pc, loc>>

\* line 80 left out
Assign_forgotten(drv, d) == drv

\* line 80
Assign(drv, d) == [drv EXCEPT ![d].available = FALSE]

\* a failure path that has already taken the next ride id
RequestFails_consumes_id(rider_id, out) ==
    /\ last' = Call("request_ride", <<rider_id>>, None, out)
    /\ _ride_id' = _ride_id + 1
    /\ UNCHANGED <<riders, drivers, rides, _rider_id, _driver_id, pc, loc>>

\* lines 74-75 and 78-79: print and return None
RequestFails(rider_id, out) ==
    /\ last' = Call("request_ride", <<rider_id>>, None, out)
    /\ UNCHANGED <<state, pc, loc>>

\* the test of line 77 run before the test of line 73
request_ride_drivers_first(rider_id, start_x, start_y, dest_x, dest_y) ==
    LET driver == _find_closest_driver(drivers, start_x, start_y)
    IN  IF driver = None
        THEN RequestFails(rider_id, NoDriverLine)
        ELSE IF Missing(riders, rider_id)
        THEN RequestFails(rider_id, RiderNotFoundLine)
        ELSE /\ _ride_id <= MaxRides
             /\ LET distance == hypot(dest_x - start_x, dest_y - start_y)
                    fare     == fare_of(distance)
                    ride     == Ride(_ride_id, rider_id, driver, start_x, start_y,
                                     dest_x, dest_y, fare)
                IN  /\ drivers' = Assign(drivers, driver)
                    /\ rides' = Put(rides, _ride_id, ride)
                    /\ _ride_id' = _ride_id + 1
                    /\ last' = Call("request_ride", <<rider_id>>, _ride_id,
                                    RideStartedLine)
             /\ UNCHANGED <<riders, _rider_id, _driver_id, pc, loc>>

request_ride(rider_id, start_x, start_y, dest_x, dest_y) ==
    LET driver == _find_closest_driver(drivers, start_x, start_y)
    IN  IF Missing(riders, rider_id)
        THEN RequestFails(rider_id, RiderNotFoundLine)
        ELSE IF driver = None
        THEN RequestFails(rider_id, NoDriverLine)
        ELSE /\ _ride_id <= MaxRides
             /\ LET distance == hypot(dest_x - start_x, dest_y - start_y)
                    fare     == fare_of(distance)
                    ride     == Ride(_ride_id, rider_id, driver, start_x, start_y,
                                     dest_x, dest_y, fare)
                IN  /\ drivers' = Assign(drivers, driver)
                    /\ rides' = Put(rides, _ride_id, ride)
                    /\ _ride_id' = _ride_id + 1
                    /\ last' = Call("request_ride", <<rider_id>>, _ride_id,
                                    RideStartedLine)
             /\ UNCHANGED <<riders, _rider_id, _driver_id, pc, loc>>

\* line 101 with dest_x for dest_y
Release_typo(drv, ride) ==
    [drv EXCEPT ![ride.driver].available = TRUE,
                ![ride.driver].x = ride.dest_x,
                ![ride.driver].y = ride.dest_x]

\* line 99 left out
Release_position_only(drv, ride) ==
    [drv EXCEPT ![ride.driver].x = ride.dest_x,
                ![ride.driver].y = ride.dest_y]

\* lines 99-101
Release(drv, ride) ==
    [drv EXCEPT ![ride.driver].available = TRUE,
                ![ride.driver].x = ride.dest_x,
                ![ride.driver].y = ride.dest_y]

\* lines 95-97 left out
AlreadyCompleted_never(ride) == FALSE

\* the test of line 95
AlreadyCompleted(ride) == ride.completed

\* line 99 run before the tests of lines 92 and 95
CompleteFails_releases(ride_id, out) ==
    /\ last' = Call("complete_ride", <<ride_id>>, None, out)
    /\ drivers' = IF Missing(rides, ride_id) THEN drivers
                  ELSE [drivers EXCEPT ![rides[ride_id].driver].available = TRUE]
    /\ UNCHANGED <<riders, rides, _rider_id, _driver_id, _ride_id, pc, loc>>

\* lines 93-94 and 96-97: print and return
CompleteFails(ride_id, out) ==
    /\ last' = Call("complete_ride", <<ride_id>>, None, out)
    /\ UNCHANGED <<state, pc, loc>>

\* line 98 also writing the drop-off point into the ride's start
MarkCompleted_moves_start(rds, ride_id) ==
    [rds EXCEPT ![ride_id].completed = TRUE,
                ![ride_id].start_x = rds[ride_id].dest_x,
                ![ride_id].start_y = rds[ride_id].dest_y]

\* line 98
MarkCompleted(rds, ride_id) == [rds EXCEPT ![ride_id].completed = TRUE]

complete_ride(ride_id) ==
    IF Missing(rides, ride_id)
    THEN CompleteFails(ride_id, RideNotFoundLine)
    ELSE IF AlreadyCompleted(rides[ride_id])
    THEN CompleteFails(ride_id, AlreadyCompletedLine)
    ELSE /\ rides' = MarkCompleted(rides, ride_id)
         /\ drivers' = Release(drivers, rides[ride_id])
         /\ last' = Call("complete_ride", <<ride_id>>, None, RideCompletedLine)
         /\ UNCHANGED <<riders, _rider_id, _driver_id, _ride_id, pc, loc>>

\* line 106 with the two labels exchanged
Entry_inverted(ride) ==
    <<ride.id, IF ride.completed THEN "active" ELSE "completed",
      riders[ride.rider].name, drivers[ride.driver].name>>

\* one printed line of list_rides (lines 106-107)
Entry(ride) ==
    <<ride.id, IF ride.completed THEN "completed" ELSE "active",
      riders[ride.rider].name, drivers[ride.driver].name>>

list_rides ==
    /\ last' = Call("list_rides", <<>>, None,
                    [i \in 1..Len(Keys(rides)) |-> Entry(rides[Keys(rides)[i]])])
    /\ UNCHANGED <<state, pc, loc>>

\* ---- the program: the menu loop of main, one call after the other ----
Init ==
    /\ riders = <<>>
    /\ drivers = <<>>
    /\ rides = <<>>
    /\ _rider_id = 1
    /\ _driver_id = 1
    /\ _ride_id = 1
    /\ last = Call("__init__", <<>>, None, "")
    /\ pc = [t \in Threads |-> "idle"]
    /\ loc = [t \in Threads |-> NoLocals]

Next ==
    \/ \E name \in RiderNames : register_rider(name)
    \/ \E name \in DriverNames, x \in Coord, y \in Coord : register_driver(name, x, y)
    \/ \E rider_id \in 1..(MaxRiders + 1), start_x \in Coord, start_y \in Coord,
          dest_x \in Coord, dest_y \in Coord :
            request_ride(rider_id, start_x, start_y, dest_x, dest_y)
    \/ \E ride_id \in 1..(MaxRides + 1) : complete_ride(ride_id)
    \/ list_rides

Spec == Init /\ [][Next]_vars

\* ---- the same program with drivers of two different names ----
ListDriverNames == {"bob", "bea"}

NextList ==
    \/ \E name \in RiderNames : register_rider(name)
    \/ \E name \in ListDriverNames, x \in Coord, y \in Coord :
          register_driver(name, x, y)
    \/ \E rider_id \in 1..(MaxRiders + 1), start_x \in Coord, start_y \in Coord,
          dest_x \in Coord, dest_y \in Coord :
            request_ride(rider_id, start_x, start_y, dest_x, dest_y)
    \/ \E ride_id \in 1..(MaxRides + 1) : complete_ride(ride_id)
    \/ list_rides

SpecList == Init /\ [][NextList]_vars

\* ---- request_ride called from several threads on one TaxiApp ----
\* The class takes no lock, so the lines of two calls interleave.  Each
\* thread makes one call and runs one line (one pass of the loop of
\* _find_closest_driver) per step.
Locals(rider_id, start_x, start_y, dest_x, dest_y) ==
    [rider_id |-> rider_id, start_x |-> start_x, start_y |-> start_y,
     dest_x |-> dest_x, dest_y |-> dest_y,
     ks |-> <<>>, closest |-> None, closest_dist |-> Inf, ride |-> None, tmp |-> None]

Goto(t, line, locals) ==
    /\ pc' = [pc EXCEPT ![t] = line]
    /\ loc' = [loc EXCEPT ![t] = locals]

\* print and return
Return(t, ret, out) ==
    /\ last' = Call("request_ride", <<loc[t].rider_id>>, ret, out)
    /\ Goto(t, "done", NoLocals)

\* line 71: the call is made
t_call(t, rider_id, start_x, start_y, dest_x, dest_y) ==
    /\ pc[t] = "idle"
    /\ Goto(t, "L72", Locals(rider_id, start_x, start_y, dest_x, dest_y))
    /\ UNCHANGED <<state, last>>

\* lines 72-76 and 60-62: the rider lookup, then the call of
\* _find_closest_driver up to the start of its loop
t_L72(t) ==
    /\ pc[t] = "L72"
    /\ IF Missing(riders, loc[t].rider_id)
       THEN Return(t, None, RiderNotFoundLine)
       ELSE /\ Goto(t, "L62", [loc[t] EXCEPT !.ks = Keys(drivers)])
            /\ UNCHANGED last
    /\ UNCHANGED state

\* lines 62-69: one pass of the loop, or its end
t_L62(t) ==
    /\ pc[t] = "L62"
    /\ IF loc[t].ks = <<>>
       THEN Goto(t, "L77", loc[t])
       ELSE LET acc == fcd_body(drivers, loc[t].start_x, loc[t].start_y,
                                Head(loc[t].ks), <<loc[t].closest, loc[t].closest_dist>>)
            IN  Goto(t, "L62", [loc[t] EXCEPT !.ks = Tail(@), !.closest = acc[1],
                                              !.closest_dist = acc[2]])
    /\ UNCHANGED <<state, last>>

\* lines 77-79
t_L77(t) ==
    /\ pc[t] = "L77"
    /\ IF loc[t].closest = None
       THEN Return(t, None, NoDriverLine)
       ELSE Goto(t, "L80", loc[t]) /\ UNCHANGED last
    /\ UNCHANGED state

\* line 80
t_L80(t) ==
    /\ pc[t] = "L80"
    /\ drivers' = Assign(drivers, loc[t].closest)
    /\ Goto(t, "L81", loc[t])
    /\ UNCHANGED <<riders, rides, _rider_id, _driver_id, _ride_id, last>>

\* lines 81-84: the Ride is built with the id the counter holds now
t_L81(t) ==
    /\ pc[t] = "L81"
    /\ LET distance == hypot(loc[t].dest_x - loc[t].start_x, loc[t].dest_y - loc[t].start_y)
           ride     == Ride(_ride_id, loc[t].rider_id, loc[t].closest,
                            loc[t].start_x, loc[t].start_y, loc[t].dest_x, loc[t].dest_y,
                            fare_of(distance))
       IN  Goto(t, "L85", [loc[t] EXCEPT !.ride = ride])
    /\ UNCHANGED <<state, last>>

\* line 85: stored under the id the counter holds now
t_L85(t) ==
    /\ pc[t] = "L85"
    /\ rides' = Put(rides, _ride_id, loc[t].ride)
    /\ Goto(t, "L86", loc[t])
    /\ UNCHANGED <<riders, drivers, _rider_id, _driver_id, _ride_id, last>>

\* line 86, the read of self._ride_id += 1
t_L86_load(t) ==
    /\ pc[t] = "L86"
    /\ Goto(t, "L86_store", [loc[t] EXCEPT !.tmp = _ride_id])
    /\ UNCHANGED <<state, last>>

\* line 86, the write of self._ride_id += 1, and lines 87-88
t_L86_store(t) ==
    /\ pc[t] = "L86_store"
    /\ _ride_id' = loc[t].tmp + 1
    /\ Return(t, loc[t].ride.id, RideStartedLine)
    /\ UNCHANGED <<riders, drivers, rides, _rider_id, _driver_id>>

\* the TaxiApp the threads share: one rider and some drivers registered,
\* one call after the other, before the threads start
InitConc ==
    /\ \E name \in RiderNames : riders = Put(<<>>, 1, Rider(1, name))
    /\ _rider_id = 2
    /\ \E n \in 1..MaxDrivers :
           /\ \E at \in [1..n -> Coord \X Coord], name \in DriverNames :
                  drivers = [d \in 1..n |-> Driver(d, name, at[d][1], at[d][2])]
           /\ _driver_id = n + 1
    /\ rides = <<>>
    /\ _ride_id = 1
    /\ last = Call("register_driver", <<>>, None, "Registered driver")
    /\ pc = [t \in Threads |-> "idle"]
    /\ loc = [t \in Threads |-> NoLocals]

NextConc ==
    \E t \in Threads :
        \/ \E rider_id \in 1..(MaxRiders + 1), start_x \in Coord, start_y \in Coord,
              dest_x \in Coord, dest_y \in Coord :
                t_call(t, rider_id, start_x, start_y, dest_x, dest_y)
        \/ t_L72(t)
        \/ t_L62(t)
        \/ t_L77(t)
        \/ t_L80(t)
        \/ t_L81(t)
        \/ t_L85(t)
        \/ t_L86_load(t)
        \/ t_L86_store(t)

SpecConc == InitConc /\ [][NextConc]_vars

\* ---- vocabulary of the properties ----
Active(r) == r \in DOMAIN rides /\ ~rides[r].completed

\* the squared Euclidean distance from the driver of key d, where drv puts
\* it, to the start point of ride
Dist2(drv, d, ride) ==
    (drv[d].x - ride.start_x) * (drv[d].x - ride.start_x)
    + (drv[d].y - ride.start_y) * (drv[d].y - ride.start_y)

\* the step is a request_ride call that returned a Ride
RequestSucceeded == last'.op = "request_ride" /\ last'.ret # None

\* the step is a request_ride call on an unknown rider id or with every
\* driver unavailable
RequestFailed ==
    /\ last'.op = "request_ride"
    /\ \/ Missing(riders, last'.args[1])
       \/ \A d \in DOMAIN drivers : ~drivers[d].available

\* the step is a complete_ride call on an unknown or an already completed ride
CompleteFailed ==
    /\ last'.op = "complete_ride"
    /\ \/ Missing(rides, last'.args[1])
       \/ rides[last'.args[1]].completed

\* the step is a complete_ride call on an active ride
CompleteSucceeded == last'.op = "complete_ride" /\ Active(last'.args[1])

\* C1: in every state reachable by calls run one after the other, at most
\* one non-completed ride references any given driver.
C1_OneActiveRidePerDriver ==
    \A r1, r2 \in DOMAIN rides :
        (r1 # r2 /\ Active(r1) /\ Active(r2)) => rides[r1].driver # rides[r2].driver

\* the case of C1: a driver with a completed ride is on a second, active one
C1_Witness ==
    \E r1, r2 \in DOMAIN rides :
        /\ rides[r1].completed /\ Active(r2)
        /\ rides[r1].driver = rides[r2].driver

\* a thread that holds the driver it selected and has not returned yet
Holding(t) == pc[t] \in {"L80", "L81", "L85", "L86", "L86_store"}

\* C2: two request_ride calls whose lines interleave never select the same
\* driver, and no driver is referenced by two non-completed rides.
C2_ConcurrentRequestsDistinctDrivers ==
    /\ \A t1, t2 \in Threads :
           (t1 # t2 /\ Holding(t1) /\ Holding(t2)) => loc[t1].closest # loc[t2].closest
    /\ \A r1, r2 \in DOMAIN rides :
           (r1 # r2 /\ Active(r1) /\ Active(r2)) => rides[r1].driver # rides[r2].driver

\* C3: the driver a successful request_ride assigns was available before
\* the call and no driver available before the call was nearer to the start
\* point, each measured from where it stood before the call.
C3_NearestAvailable ==
    [][RequestSucceeded =>
        LET ride == rides'[last'.ret]
            d    == ride.driver
        IN  /\ d \in DOMAIN drivers
            /\ drivers[d].available
            /\ \A e \in DOMAIN drivers :
                   drivers[e].available => Dist2(drivers, d, ride) <= Dist2(drivers, e, ride)
    ]_vars

\* the case of C3: the last call assigned a driver that an earlier ride had
\* moved, and left a strictly farther driver available
C3_Witness ==
    /\ last.op = "request_ride" /\ last.ret # None
    /\ LET ride == rides[last.ret]
       IN  /\ \E e \in DOMAIN drivers :
                  /\ drivers[e].available
                  /\ Dist2(drivers, e, ride) > Dist2(drivers, ride.driver, ride)
           /\ \E r0 \in DOMAIN rides :
                  rides[r0].completed /\ rides[r0].driver = ride.driver

\* C4: among the available drivers at the minimal distance from the start
\* point, a successful request_ride assigns the one of lowest id.
C4_TieBreakLowestId ==
    [][RequestSucceeded =>
        LET ride == rides'[last'.ret]
            d    == ride.driver
        IN  \A e \in DOMAIN drivers :
                (drivers[e].available /\ Dist2(drivers, e, ride) = Dist2(drivers, d, ride))
                    => drivers[d].id <= drivers[e].id
    ]_vars

\* the case of C4: the last call chose between two available drivers at the
\* same distance, after one of them had been assigned and released
C4_Witness ==
    /\ last.op = "request_ride" /\ last.ret # None
    /\ LET ride == rides[last.ret]
       IN  /\ \E e \in DOMAIN drivers :
                  /\ e # ride.driver /\ drivers[e].available
                  /\ Dist2(drivers, e, ride) = Dist2(drivers, ride.driver, ride)
           /\ \E r0 \in DOMAIN rides : rides[r0].completed

\* C5: while a ride is not completed its driver has available = false,
\* whatever calls ran since the ride was created.
C5_UnavailableWhileActive ==
    \A r \in DOMAIN rides : Active(r) => ~drivers[rides[r].driver].available

\* the case of C5: a ride is active right after a complete_ride of another
\* ride, or a failed one, returned
C5_Witness ==
    /\ last.op = "complete_ride"
    /\ \E r \in DOMAIN rides : Active(r) /\ last.args # <<r>>
    /\ \E r0 \in DOMAIN rides : rides[r0].completed

\* C6: a complete_ride on an active ride leaves the ride completed and its
\* driver available at the ride's destination, and changes no other driver.
C6_CompleteReleasesDriver ==
    [][CompleteSucceeded =>
        LET r == last'.args[1]
            d == rides[r].driver
        IN  /\ rides'[r].completed
            /\ drivers'[d].available
            /\ drivers'[d].x = rides[r].dest_x
            /\ drivers'[d].y = rides[r].dest_y
            /\ DOMAIN drivers' = DOMAIN drivers
            /\ \A e \in DOMAIN drivers : e # d => drivers'[e] = drivers[e]
    ]_vars

\* the case of C6: the last call completed a ride whose destination has two
\* different coordinates while another driver is still on a ride
C6_Witness ==
    /\ last.op = "complete_ride" /\ last.out = RideCompletedLine
    /\ rides[last.args[1]].dest_x # rides[last.args[1]].dest_y
    /\ \E e \in DOMAIN drivers : ~drivers[e].available

\* C7: a request_ride that fails, on an unknown rider id or with no driver
\* available, changes no collection, no driver field and no id counter.
C7_FailedRequestChangesNothing ==
    [][RequestFailed => UNCHANGED state]_vars

\* the case of C7: the last call failed for a registered rider because every
\* registered driver was on a ride
C7_Witness ==
    /\ last.op = "request_ride" /\ last.out = NoDriverLine
    /\ last.args[1] \in DOMAIN riders
    /\ drivers # <<>>
    /\ \E r \in DOMAIN rides : Active(r)

C9_FailedCompleteChangesNothing ==
    [][CompleteFailed => UNCHANGED state]_vars

\* the case of C9: the last call was a complete_ride of a completed ride whose
\* driver is on a new active ride, and that driver is still unavailable
C9_Witness ==
    /\ last.op = "complete_ride" /\ last.out = AlreadyCompletedLine
    /\ \E r2 \in DOMAIN rides :
           /\ Active(r2)
           /\ rides[r2].driver = rides[last.args[1]].driver
           /\ ~drivers[rides[r2].driver].available

C11_IdsSequentialPerType ==
    /\ DOMAIN riders = 1..(_rider_id - 1)
    /\ DOMAIN drivers = 1..(_driver_id - 1)
    /\ DOMAIN rides = 1..(_ride_id - 1)
    /\ \A k \in DOMAIN riders : riders[k].id = k
    /\ \A k \in DOMAIN drivers : drivers[k].id = k
    /\ \A k \in DOMAIN rides : rides[k].id = k

\* the case of C11: the three counters stand at different values right after
\* a request_ride failed with rides already created
C11_Witness ==
    /\ last.op = "request_ride" /\ last.ret = None
    /\ _ride_id = 2 /\ _driver_id = 3 /\ _rider_id = 2

\* the nearest integer to 10000 times the distance from the start to the
\* destination of ride, stated without computing a root
IsRoundedDistance(f, ride) ==
    LET dx == ride.dest_x - ride.start_x
        dy == ride.dest_y - ride.start_y
        n  == (dx * dx + dy * dy) * 100000000
    IN  f >= 0 /\ (f = 0 \/ f * f - f < n) /\ n <= f * f + f

\* C12: the fare of every ride is 250 + 100 * (distance from start to
\* destination), rounded to hundredths, whatever the rider, the driver and
\* the earlier calls: 350.00 for (0,0) to (1,0), 250.00 for a ride that ends
\* where it starts.
C12_FareFromCoordinates ==
    \A r \in DOMAIN rides :
        /\ IsRoundedDistance(rides[r].fare - 25000, rides[r])
        /\ (rides[r].start_x = 0 /\ rides[r].start_y = 0 /\ rides[r].dest_x = 1
                /\ rides[r].dest_y = 0) => rides[r].fare = 35000
        /\ (rides[r].start_x = rides[r].dest_x /\ rides[r].start_y = rides[r].dest_y)
                => rides[r].fare = 25000

\* the case of C12: two rides over the same diagonal, by different drivers,
\* the second after the first was completed, both at 391.42
C12_Witness ==
    \E r1, r2 \in DOMAIN rides :
        /\ r1 # r2 /\ rides[r1].completed
        /\ rides[r1].driver # rides[r2].driver
        /\ rides[r1].fare = 39142 /\ rides[r2].fare = 39142
        /\ rides[r1].start_x # rides[r1].dest_x /\ rides[r1].start_y # rides[r1].dest_y

\* the fields of a ride other than its completed flag
Fixed(ride) ==
    <<ride.id, ride.rider, ride.driver, ride.start_x, ride.start_y,
      ride.dest_x, ride.dest_y, ride.fare>>

\* C13: a ride is created with completed = false, and a ride that is
\* completed stays stored, completed and unchanged in every field under
\* every later call.
C13_CompletedIsFinal ==
    [][/\ \A r \in DOMAIN rides' \ DOMAIN rides : ~rides'[r].completed
       /\ \A r \in DOMAIN rides :
              rides[r].completed =>
                  /\ r \in DOMAIN rides'
                  /\ rides'[r].completed
                  /\ Fixed(rides'[r]) = Fixed(rides[r])
    ]_vars

\* the case of C13: a ride is completed and its driver has since been
\* assigned to a newer ride by the last call
C13_Witness ==
    /\ last.op = "request_ride" /\ last.ret # None
    /\ \E r \in DOMAIN rides :
           /\ rides[r].completed /\ r < last.ret
           /\ rides[r].driver = rides[last.ret].driver

\* C14: the fare, the driver, the rider, the start and the destination of a
\* ride are the same after every call as before it, complete_ride of that
\* ride, later rides of its driver and registrations included.
C14_RideFieldsFixed ==
    [][\A r \in DOMAIN rides :
           r \in DOMAIN rides' /\ Fixed(rides'[r]) = Fixed(rides[r])
    ]_vars

\* the case of C14: two rides of one driver are both completed and the driver
\* no longer stands where the first ride ended
C14_Witness ==
    \E r1, r2 \in DOMAIN rides :
        /\ r1 < r2 /\ rides[r1].completed /\ rides[r2].completed
        /\ rides[r1].driver = rides[r2].driver
        /\ <<drivers[rides[r1].driver].x, drivers[rides[r1].driver].y>>
               # <<rides[r1].dest_x, rides[r1].dest_y>>

\* C15: list_rides prints one entry per stored ride, in ascending order of
\* ride id, labelled completed exactly when the ride's flag is true and
\* active otherwise, with the names of the ride's own rider and driver, and
\* changes no state.
C15_ListRides ==
    [][last'.op = "list_rides" =>
        /\ UNCHANGED state
        /\ DOMAIN last'.out = 1..Cardinality(DOMAIN rides)
        /\ \A i \in DOMAIN last'.out :
               /\ last'.out[i][1] \in DOMAIN rides
               /\ last'.out[i][2] = (IF rides[last'.out[i][1]].completed
                                     THEN "completed" ELSE "active")
               /\ last'.out[i][3] = riders[rides[last'.out[i][1]].rider].name
               /\ last'.out[i][4] = drivers[rides[last'.out[i][1]].driver].name
        /\ \A i, j \in DOMAIN last'.out : i < j => last'.out[i][1] < last'.out[j][1]
    ]_vars

\* the case of C15: the list just printed has a completed and an active ride,
\* by drivers of different names
C15_Witness ==
    /\ last.op = "list_rides"
    /\ \E i, j \in DOMAIN last.out :
           /\ last.out[i][2] = "completed" /\ last.out[j][2] = "active"
           /\ last.out[i][4] # last.out[j][4]

Built(t) == pc[t] \in {"L85", "L86", "L86_store"}

\* a thread that has stored its Ride (line 85) and has not returned yet
Stored(t) == pc[t] \in {"L86", "L86_store"}

\* C17: two request_ride calls whose lines interleave receive different ride
\* ids, and the ride each has stored stays stored: none is overwritten.
C17_ConcurrentIdsDistinct ==
    /\ \A t1, t2 \in Threads :
           (t1 # t2 /\ Built(t1) /\ Built(t2)) => loc[t1].ride.id # loc[t2].ride.id
    /\ \A t \in Threads :
           Stored(t) => \E k \in DOMAIN rides : rides[k] = loc[t].ride

\* C18: a driver is unavailable only while a non-completed ride references
\* it: the unavailable drivers are as many as the active rides, and when
\* every ride is completed every driver is available.
C18_UnavailableOnlyWhileActive ==
    /\ \A d \in DOMAIN drivers :
           ~drivers[d].available => \E r \in DOMAIN rides : Active(r) /\ rides[r].driver = d
    /\ Cardinality({d \in DOMAIN drivers : ~drivers[d].available})
           = Cardinality({r \in DOMAIN rides : Active(r)})
    /\ (\A r \in DOMAIN rides : rides[r].completed)
           => \A d \in DOMAIN drivers : drivers[d].available

\* the case of C18: every ride is completed, two drivers have each had one,
\* and both are available again
C18_Witness ==
    /\ \A r \in DOMAIN rides : rides[r].completed
    /\ \E r1, r2 \in DOMAIN rides : rides[r1].driver # rides[r2].driver
    /\ \A d \in DOMAIN drivers : drivers[d].available

\* C19: every stored ride references a rider and a driver that are stored in
\* the rider and driver dicts, and no call removes or replaces a stored
\* rider, driver or ride: a rider never changes, a driver keeps its id and
\* name and changes in no field outside request_ride and complete_ride, and
\* a ride keeps its id, its rider and its driver.
C19_ReferencesRegisteredAndGrowOnly ==
    [][/\ \A r \in DOMAIN rides' :
              rides'[r].rider \in DOMAIN riders' /\ rides'[r].driver \in DOMAIN drivers'
       /\ \A k \in DOMAIN riders : k \in DOMAIN riders' /\ riders'[k] = riders[k]
       /\ \A k \in DOMAIN drivers :
              /\ k \in DOMAIN drivers'
              /\ drivers'[k].id = drivers[k].id /\ drivers'[k].name = drivers[k].name
              /\ last'.op \notin {"request_ride", "complete_ride"}
                     => drivers'[k] = drivers[k]
       /\ \A r \in DOMAIN rides :
              /\ r \in DOMAIN rides'
              /\ rides'[r].id = rides[r].id
              /\ rides'[r].rider = rides[r].rider
              /\ rides'[r].driver = rides[r].driver
    ]_vars

\* the case of C19: a driver was registered by the last call while an earlier
\* driver is on a ride
C19_Witness ==
    /\ last.op = "register_driver"
    /\ \E r \in DOMAIN rides : Active(r) /\ rides[r].driver < last.ret

\* C20: register_driver stores a new driver with available = true at the
\* coordinates given and register_rider stores a new rider; each leaves
\* every stored rider, driver and ride as it was and changes nothing but its
\* own dict and its own counter.
C20_RegistrationFrame ==
    [][/\ last'.op = "register_driver" =>
            /\ last'.ret \notin DOMAIN drivers
            /\ DOMAIN drivers' = DOMAIN drivers \cup {last'.ret}
            /\ drivers'[last'.ret] = [id |-> last'.ret, name |-> last'.args[1],
                                      x |-> last'.args[2], y |-> last'.args[3],
                                      available |-> TRUE]
            /\ \A k \in DOMAIN drivers : drivers'[k] = drivers[k]
            /\ _driver_id' = _driver_id + 1
            /\ UNCHANGED <<riders, rides, _rider_id, _ride_id>>
       /\ last'.op = "register_rider" =>
            /\ last'.ret \notin DOMAIN riders
            /\ DOMAIN riders' = DOMAIN riders \cup {last'.ret}
            /\ riders'[last'.ret] = [id |-> last'.ret, name |-> last'.args[1]]
            /\ \A k \in DOMAIN riders : riders'[k] = riders[k]
            /\ _rider_id' = _rider_id + 1
            /\ UNCHANGED <<drivers, rides, _driver_id, _ride_id>>
    ]_vars

\* the case of C20: the last call registered a driver at a point with two
\* different coordinates while another driver was on a ride
C20_Witness ==
    /\ last.op = "register_driver"
    /\ last.args[2] # last.args[3]
    /\ \E d \in DOMAIN drivers : ~drivers[d].available
    /\ \E r \in DOMAIN rides : Active(r)

====
